---- MODULE Spec2Model ----
(***************************************************************************)
(* Model of src/core/llm_client.py: the completeness classifier            *)
(* (is_llm_response_incomplete), the retry loop                            *)
(* (call_llm_with_timeout_handling) and the command-line entry point       *)
(* (main).                                                                 *)
(*                                                                         *)
(* A text is a sequence of one-character strings.  The symbol LongRun      *)
(* stands for a run of RunWidth letters "x", so that texts of 50 and more  *)
(* characters are representable in a short sequence.                       *)
(***************************************************************************)
EXTENDS Integers, Sequences, FiniteSets, TLC

\* ------------------------------------------------------------------ bounds
MaxLen == 3
MaxContentLen == 1
MaxRetriesBound == 3
RunWidth == 50

\* ------------------------------------------------------- program constants
ShortThreshold == 50
DefaultMaxRetries == 3

\* -------------------------------------------------------------------- text
LongRun == "x*"

Alphabet == {"{", "}", "[", "]", ":", ",", "\"", " ", "1", "x", LongRun}

RECURSIVE SeqsUpTo(_)
SeqsUpTo(n) ==
  IF n = 0 THEN {<<>>}
  ELSE LET prev == SeqsUpTo(n - 1)
       IN prev \cup {Append(s, c) : s \in {p \in prev : Len(p) = n - 1}, c \in Alphabet}

Seeds ==
  { <<>>,
    <<"{", "\"", "\"", ":">>,
    <<"{", "\"", "x", "\"", ":", "1", ",", "\"", "\"", ":">>,
    <<"[", "1", ",">>,
    <<LongRun, " ">> }

Texts == {seed \o suffix : seed \in Seeds, suffix \in SeqsUpTo(MaxLen)}

Width(c) == IF c = LongRun THEN RunWidth ELSE 1

\* len(text): the number of characters of the text
RECURSIVE TextLen(_)
TextLen(s) == IF s = <<>> THEN 0 ELSE Width(Head(s)) + TextLen(Tail(s))

IsSpace(c) == c = " "

\* str.strip(): drop leading and trailing whitespace
RECURSIVE LStrip(_)
LStrip(s) == IF s # <<>> /\ IsSpace(Head(s)) THEN LStrip(Tail(s)) ELSE s

RECURSIVE RStrip(_)
RStrip(s) ==
  IF s # <<>> /\ IsSpace(s[Len(s)]) THEN RStrip(SubSeq(s, 1, Len(s) - 1)) ELSE s

strip(s) == LStrip(RStrip(s))

\* ------------------------------------------------------------- json.loads
\* Scanners take a text and a 1-based position and return the position after
\* the scanned item, or 0 when the item is malformed.
RECURSIVE SkipWs(_, _)
SkipWs(s, i) == IF i <= Len(s) /\ IsSpace(s[i]) THEN SkipWs(s, i + 1) ELSE i

IsDigit(c) == c = "1"

RECURSIVE ScanDigits(_, _)
ScanDigits(s, i) == IF i <= Len(s) /\ IsDigit(s[i]) THEN ScanDigits(s, i + 1) ELSE i

\* s[i] is the opening quote; the string ends at the next quote
RECURSIVE ScanStringBody(_, _)
ScanStringBody(s, i) ==
  IF i > Len(s) THEN 0
  ELSE IF s[i] = "\"" THEN i + 1
  ELSE ScanStringBody(s, i + 1)

ScanString(s, i) ==
  IF i <= Len(s) /\ s[i] = "\"" THEN ScanStringBody(s, i + 1) ELSE 0

RECURSIVE ScanValue(_, _)
RECURSIVE ScanArrayItems(_, _)
RECURSIVE ScanObjectMembers(_, _)

\* i is the position of the next item of an array, after "[" or ","
ScanArrayItems(s, i) ==
  LET e == ScanValue(s, i)
      j == SkipWs(s, e)
  IN IF e = 0 \/ j > Len(s) THEN 0
     ELSE IF s[j] = "]" THEN j + 1
     ELSE IF s[j] = "," THEN ScanArrayItems(s, SkipWs(s, j + 1))
     ELSE 0

\* i is the position of the next key of an object, after "{" or ","
ScanObjectMembers(s, i) ==
  LET k == ScanString(s, i)
      c == SkipWs(s, k)
  IN IF k = 0 \/ c > Len(s) \/ s[c] # ":" THEN 0
     ELSE LET e == ScanValue(s, SkipWs(s, c + 1))
              j == SkipWs(s, e)
          IN IF e = 0 \/ j > Len(s) THEN 0
             ELSE IF s[j] = "}" THEN j + 1
             ELSE IF s[j] = "," THEN ScanObjectMembers(s, SkipWs(s, j + 1))
             ELSE 0

ScanValue(s, i) ==
  IF i > Len(s) THEN 0
  ELSE IF s[i] = "\"" THEN ScanString(s, i)
  ELSE IF s[i] = "{" THEN
    LET j == SkipWs(s, i + 1)
    IN IF j <= Len(s) /\ s[j] = "}" THEN j + 1 ELSE ScanObjectMembers(s, j)
  ELSE IF s[i] = "[" THEN
    LET j == SkipWs(s, i + 1)
    IN IF j <= Len(s) /\ s[j] = "]" THEN j + 1 ELSE ScanArrayItems(s, j)
  ELSE IF IsDigit(s[i]) THEN ScanDigits(s, i)
  ELSE 0

\* JSONDecoder.decode: one value between optional whitespace, no extra data
JsonParses(s) ==
  LET e == ScanValue(s, SkipWs(s, 1))
  IN e # 0 /\ SkipWs(s, e) = Len(s) + 1

\* ------------------------------------------------------------ the content
\* A content value is a str, None, or a truthy value of another type.
StrContent(s) == [t |-> "str", v |-> s]
NoneContent == [t |-> "None", v |-> <<>>]
NonStrContent == [t |-> "nonstr", v |-> <<>>]

\* json.loads(response_text)
json_loads(c) ==
  IF c.t # "str" THEN "TypeError"
  ELSE IF JsonParses(c.v) THEN "ok"
  ELSE "JSONDecodeError"

\* re.search(ch + r'\s*$', text)
SearchTrailing(ch, s) ==
  \E i \in 1..Len(s) : s[i] = ch /\ \A j \in (i + 1)..Len(s) : IsSpace(s[j])

\* the list without the opening bracket
incomplete_patterns_NoBracket == <<"}", ",", ":", "\"", "{">>

incomplete_patterns == <<"}", ",", ":", "\"", "[", "{">>

Falsy(c) == c.t = "None" \/ (c.t = "str" /\ c.v = <<>>)

\* the trailing-fragment patterns tried before the parse
is_llm_response_incomplete_PatternsFirst(c) ==
  IF Falsy(c) THEN "True"
  ELSE IF c.t = "str" /\ \E p \in 1..Len(incomplete_patterns) :
            SearchTrailing(incomplete_patterns[p], strip(c.v)) THEN "True"
  ELSE LET parsed == json_loads(c)
       IN IF parsed = "ok" THEN "False"
          ELSE IF parsed = "TypeError" THEN "TypeError"
          ELSE IF TextLen(strip(c.v)) < ShortThreshold THEN "True"
          ELSE "False"

\* the length rule left out
is_llm_response_incomplete_NoShortRule(c) ==
  IF Falsy(c) THEN "True"
  ELSE LET parsed == json_loads(c)
       IN IF parsed = "ok" THEN "False"
          ELSE IF parsed = "TypeError" THEN "TypeError"
          ELSE IF \E p \in 1..Len(incomplete_patterns) :
                    SearchTrailing(incomplete_patterns[p], strip(c.v)) THEN "True"
          ELSE "False"

\* the length rule with <= for <
is_llm_response_incomplete_ShortInclusive(c) ==
  IF Falsy(c) THEN "True"
  ELSE LET parsed == json_loads(c)
       IN IF parsed = "ok" THEN "False"
          ELSE IF parsed = "TypeError" THEN "TypeError"
          ELSE IF \E p \in 1..Len(incomplete_patterns) :
                    SearchTrailing(incomplete_patterns[p], strip(c.v)) THEN "True"
          ELSE IF TextLen(strip(c.v)) <= ShortThreshold THEN "True"
          ELSE "False"

\* is_llm_response_incomplete: "True", "False", or the exception that escapes
is_llm_response_incomplete(c) ==
  IF Falsy(c) THEN "True"
  ELSE LET parsed == json_loads(c)
       IN IF parsed = "ok" THEN "False"
          ELSE IF parsed = "TypeError" THEN "TypeError"
          ELSE IF \E p \in 1..Len(incomplete_patterns) :
                    SearchTrailing(incomplete_patterns[p], strip(c.v)) THEN "True"
          ELSE IF TextLen(strip(c.v)) < ShortThreshold THEN "True"
          ELSE "False"

\* ------------------------------------------------------- the retry loop
\* for attempt in range(max_retries): is there an iteration with index i?
HasNextOffByOne(i, n) == i <= n

HasNext(i, n) == i < n

\* if "choices" in result and len(result["choices"]) > 0
HasChoicesKeyOnly(choices) == choices # "absent"

HasChoices(choices) == choices \notin {"absent", "empty"}

NoContent == [t |-> "-", v |-> <<>>]

Contents ==
  {StrContent(s) : s \in SeqsUpTo(MaxContentLen)} \cup {NoneContent, NonStrContent}

\* What one HTTP attempt can come back with: requests.post raising Timeout,
\* requests.post / raise_for_status / response.json raising another
\* RequestException, or a 2xx JSON body.  The body has no usable "choices"
\* ("absent", "empty"), a first choice without message/content ("malformed"),
\* or a first choice carrying a content value ("first").
Responses ==
  {[status |-> st, choices |-> "-", content |-> NoContent] :
      st \in {"Timeout", "RequestException"}}
  \cup {[status |-> "ok", choices |-> ch, content |-> NoContent] :
      ch \in {"absent", "empty", "malformed"}}
  \cup {[status |-> "ok", choices |-> "first", content |-> c] : c \in Contents}

NoResponse == [status |-> "-", choices |-> "-", content |-> NoContent]

\* The outcome of one attempt, as the body of the try block decides it
Outcome(r) ==
  IF r.status # "ok" THEN r.status
  ELSE IF ~HasChoices(r.choices) THEN "no_choices"
  ELSE IF r.choices # "first" THEN "raise"
  ELSE LET v == is_llm_response_incomplete(r.content)
       IN IF v = "True" THEN "incomplete"
          ELSE IF v = "False" THEN "complete"
          ELSE "raise"

\* Where control goes after an outcome: "loop" is the next iteration,
\* "sleep" is time.sleep(2) and then the next iteration, "return" is
\* return result, "raise" is an exception no except clause catches.
DispositionAcceptIncomplete(kind) ==
  IF kind \in {"Timeout", "RequestException", "no_choices"} THEN "loop"
  ELSE IF kind \in {"incomplete", "complete"} THEN "return"
  ELSE "raise"

DispositionKeepGoing(kind) ==
  IF kind \in {"Timeout", "RequestException", "no_choices"} THEN "loop"
  ELSE IF kind \in {"incomplete", "complete"} THEN "sleep"
  ELSE "raise"

DispositionSleepOnTimeout(kind) ==
  IF kind \in {"RequestException", "no_choices"} THEN "loop"
  ELSE IF kind \in {"incomplete", "Timeout"} THEN "sleep"
  ELSE IF kind = "complete" THEN "return"
  ELSE "raise"

DispositionUncaughtError(kind) ==
  IF kind \in {"Timeout", "no_choices"} THEN "loop"
  ELSE IF kind = "incomplete" THEN "sleep"
  ELSE IF kind = "complete" THEN "return"
  ELSE "raise"

Disposition(kind) ==
  IF kind \in {"Timeout", "RequestException", "no_choices"} THEN "loop"
  ELSE IF kind = "incomplete" THEN "sleep"
  ELSE IF kind = "complete" THEN "return"
  ELSE "raise"

\* ---------------------------------------------------------- the entry point
NoKey == "<None>"
EmptyKey == ""
SomeKey == "sk-key"
NotGiven == "<not given>"

\* the environment variable taking precedence over the option
ResolveApiKeyEnvFirst(opt, env) == IF env # NoKey THEN env ELSE opt

\* --api-key with default=lambda: os.environ.get('OPENROUTER_API_KEY')
ResolveApiKey(opt, env) == IF opt # NotGiven THEN opt ELSE env

\* if not api_key
KeyMissingOnlyNone(k) == k = NoKey

KeyMissing(k) == k \in {NoKey, EmptyKey}

\* if not query.strip()
BlankNoStrip(q) == q = <<>>

Blank(q) == strip(q) = <<>>

Queries == {<<>>, <<" ">>, <<"x">>, <<" ", "x">>}

\* if result and "choices" in result and len(result["choices"]) > 0: what
\* main writes for what the call returned; an exception passes through main
MainReportInverted(r) ==
  IF r.kind = "raised" THEN [kind |-> "exception", content |-> NoContent]
  ELSE IF r.kind = "None" THEN [kind |-> "echo", content |-> r.content]
  ELSE [kind |-> "Failed to get response from LLM.", content |-> NoContent]

MainReport(r) ==
  IF r.kind = "raised" THEN [kind |-> "exception", content |-> NoContent]
  ELSE IF r.kind = "Completed" THEN [kind |-> "echo", content |-> r.content]
  ELSE [kind |-> "Failed to get response from LLM.", content |-> NoContent]

\* ------------------------------------------------------------- the request
MaxTokens == 4000

ModelName == "anthropic/claude-3-haiku:beta"

NoRequest == [auth |-> <<>>, content_type |-> "-", model |-> "-", messages |-> <<>>, max_tokens |-> 0]

\* headers = {...}; payload = {...}
BuildRequest(key, model, messages) ==
  [auth |-> <<"Bearer", key>>, content_type |-> "application/json",
   model |-> model, messages |-> messages, max_tokens |-> MaxTokens]

\* requests.post(url, headers=headers, json=payload, timeout=timeout): what
\* attempt i hands over
SentRequestShrinking(req, i) == [req EXCEPT !.max_tokens = MaxTokens - i]

SentRequest(req, i) == req

\* return None: what the caller gets after the loop, last being the outcome
\* of the last attempt
ExhaustedResultCarrying(last) == [kind |-> "None", content |-> NoContent, outcome |-> last]

ExhaustedResult(last) == [kind |-> "None", content |-> NoContent, outcome |-> "-"]

\* ------------------------------------------------------------------- state
VARIABLES
  entry,          \* "main", "direct" (a caller of call_llm_with_timeout_handling), "classifier"
  pc,             \* position of the run
  env_key,        \* OPENROUTER_API_KEY in the process environment
  opt_key,        \* the --api-key option
  api_key,        \* the api_key parameter
  query,          \* the query argument, the content of the one message
  max_retries,    \* the max_retries parameter
  attempt,        \* the loop variable; -1 before the first iteration
  response,       \* what the attempt in hand came back with
  log,            \* what the run did, in order: post, outcome, sleep
  result,         \* what call_llm_with_timeout_handling returned or raised
  output,         \* what main wrote, or the exception it ended with
  response_text,  \* the argument of is_llm_response_incomplete, called on its own
  verdict,        \* and what that call came back with
  request,        \* the headers and the payload, once built
  sent            \* the requests handed to requests.post, in order

vars == <<entry, pc, env_key, opt_key, api_key, query, max_retries, attempt,
          response, log, result, output, response_text, verdict, request, sent>>

Event(ev, i) == [ev |-> ev, attempt |-> i]

PendingResult == [kind |-> "pending", content |-> NoContent, outcome |-> "-"]
NoOutput == [kind |-> "none", content |-> NoContent]

\* ------------------------------------------------------------ log helpers
EventsOf(kinds) == {i \in 1..Len(log) : log[i].ev \in kinds}

NumPosts == Cardinality(EventsOf({"post"}))

NumSleeps == Cardinality(EventsOf({"sleep"}))

Returned == result.kind # "pending"

FailureKinds == {"Timeout", "RequestException", "incomplete", "no_choices"}

OutcomeKinds == FailureKinds \cup {"complete", "raise"}

LastOutcome == CHOOSE i \in EventsOf(OutcomeKinds) : \A j \in EventsOf(OutcomeKinds) : j <= i

InitMain ==
  /\ entry = "main"
  /\ pc = "main"
  /\ env_key \in {NoKey, EmptyKey, SomeKey}
  /\ opt_key \in {NotGiven, EmptyKey, SomeKey}
  /\ api_key = ResolveApiKey(opt_key, env_key)
  /\ query \in Queries
  /\ max_retries = 0

InitDirect ==
  /\ entry = "direct"
  /\ pc = "call"
  /\ env_key \in {NoKey, SomeKey}
  /\ opt_key = NotGiven
  /\ api_key \in {NoKey, EmptyKey, SomeKey}
  /\ query = <<"x">>
  /\ max_retries \in 0..MaxRetriesBound

Init ==
  /\ InitMain \/ InitDirect
  /\ attempt = -1
  /\ response = NoResponse
  /\ log = <<>>
  /\ result = PendingResult
  /\ output = NoOutput
  /\ response_text = NoContent
  /\ verdict = "pending"
  /\ request = NoRequest
  /\ sent = <<>>

\* main, up to the call
MainGuard ==
  /\ pc = "main"
  /\ IF KeyMissing(api_key)
       THEN /\ pc' = "exit"
            /\ output' = [kind |-> "ClickException: API key is required", content |-> NoContent]
            /\ UNCHANGED max_retries
     ELSE IF Blank(query)
       THEN /\ pc' = "exit"
            /\ output' = [kind |-> "ClickException: Query cannot be blank", content |-> NoContent]
            /\ UNCHANGED max_retries
     ELSE /\ pc' = "call"
          /\ max_retries' = DefaultMaxRetries
          /\ UNCHANGED output
  /\ UNCHANGED <<entry, env_key, opt_key, api_key, query, attempt, response, log,
                 result, response_text, verdict, request, sent>>

\* call_llm_with_timeout_handling: headers and payload are built
Call ==
  /\ pc = "call"
  /\ request' = BuildRequest(api_key, ModelName, <<[role |-> "user", content |-> query]>>)
  /\ pc' = "loop"
  /\ UNCHANGED <<entry, env_key, opt_key, api_key, query, max_retries, attempt,
                 response, log, result, output, response_text, verdict, sent>>

\* the head of the for loop
LoopHead ==
  /\ pc = "loop"
  /\ IF HasNext(attempt + 1, max_retries)
       THEN attempt' = attempt + 1 /\ pc' = "try"
       ELSE pc' = "exhausted" /\ UNCHANGED attempt
  /\ UNCHANGED <<entry, env_key, opt_key, api_key, query, max_retries, response,
                 log, result, output, response_text, verdict, request, sent>>

\* requests.post is called
Post ==
  /\ pc = "try"
  /\ log' = Append(log, Event("post", attempt))
  /\ sent' = Append(sent, SentRequest(request, attempt))
  /\ pc' = "inflight"
  /\ UNCHANGED <<entry, env_key, opt_key, api_key, query, max_retries, attempt,
                 response, result, output, response_text, verdict, request>>

\* the attempt ends: a response, an error or the timeout
Receive ==
  /\ pc = "inflight"
  /\ \E r \in Responses : response' = r
  /\ pc' = "handle"
  /\ UNCHANGED <<entry, env_key, opt_key, api_key, query, max_retries, attempt,
                 log, result, output, response_text, verdict, request, sent>>

\* the last iteration leaving the loop without its sleep
GotoNoFinalSleep(kind) ==
  LET d == IF Disposition(kind) = "sleep" /\ attempt = max_retries - 1
             THEN "loop" ELSE Disposition(kind)
  IN /\ pc' = IF d \in {"return", "raise"} THEN "returned" ELSE d
     /\ result' = IF d = "return" THEN [kind |-> "Completed", content |-> response.content, outcome |-> "-"]
                  ELSE IF d = "raise" THEN [kind |-> "raised", content |-> NoContent, outcome |-> "-"]
                  ELSE result

Goto(kind) ==
  LET d == Disposition(kind)
  IN /\ pc' = IF d \in {"return", "raise"} THEN "returned" ELSE d
     /\ result' = IF d = "return" THEN [kind |-> "Completed", content |-> response.content, outcome |-> "-"]
                  ELSE IF d = "raise" THEN [kind |-> "raised", content |-> NoContent, outcome |-> "-"]
                  ELSE result

\* except requests.exceptions.Timeout
HandleTimeout ==
  /\ pc = "handle"
  /\ response.status = "Timeout"
  /\ log' = Append(log, Event(Outcome(response), attempt))
  /\ Goto(Outcome(response))
  /\ UNCHANGED <<entry, env_key, opt_key, api_key, query, max_retries, attempt,
                 response, output, response_text, verdict, request, sent>>

\* except requests.exceptions.RequestException
HandleRequestException ==
  /\ pc = "handle"
  /\ response.status = "RequestException"
  /\ log' = Append(log, Event(Outcome(response), attempt))
  /\ Goto(Outcome(response))
  /\ UNCHANGED <<entry, env_key, opt_key, api_key, query, max_retries, attempt,
                 response, output, response_text, verdict, request, sent>>

\* result = response.json() and the check of it
HandleResponse ==
  /\ pc = "handle"
  /\ response.status = "ok"
  /\ log' = Append(log, Event(Outcome(response), attempt))
  /\ Goto(Outcome(response))
  /\ UNCHANGED <<entry, env_key, opt_key, api_key, query, max_retries, attempt,
                 response, output, response_text, verdict, request, sent>>

\* time.sleep(2); continue
Sleep ==
  /\ pc = "sleep"
  /\ log' = Append(log, Event("sleep", attempt))
  /\ pc' = "loop"
  /\ UNCHANGED <<entry, env_key, opt_key, api_key, query, max_retries, attempt,
                 response, result, output, response_text, verdict, request, sent>>

\* the loop is over: return None
Exhausted ==
  /\ pc = "exhausted"
  /\ result' = ExhaustedResult(IF EventsOf(OutcomeKinds) = {} THEN "-" ELSE log[LastOutcome].ev)
  /\ pc' = "returned"
  /\ UNCHANGED <<entry, env_key, opt_key, api_key, query, max_retries, attempt,
                 response, log, output, response_text, verdict, request, sent>>

\* main, after the call
MainOutput ==
  /\ pc = "returned"
  /\ entry = "main"
  /\ output' = MainReport(result)
  /\ pc' = "exit"
  /\ UNCHANGED <<entry, env_key, opt_key, api_key, query, max_retries, attempt,
                 response, log, result, response_text, verdict, request, sent>>

Next ==
  \/ MainGuard
  \/ Call
  \/ LoopHead
  \/ Post
  \/ Receive
  \/ HandleTimeout
  \/ HandleRequestException
  \/ HandleResponse
  \/ Sleep
  \/ Exhausted
  \/ MainOutput

Spec == Init /\ [][Next]_vars

\* ------------------------------------------------- the classifier on its own
ClassifierInputs == {StrContent(s) : s \in Texts} \cup {NoneContent, NonStrContent}

InitClassifier ==
  /\ entry = "classifier"
  /\ pc = "classify"
  /\ env_key = NoKey
  /\ opt_key = NotGiven
  /\ api_key = NoKey
  /\ query = <<>>
  /\ max_retries = 0
  /\ attempt = -1
  /\ response = NoResponse
  /\ log = <<>>
  /\ result = PendingResult
  /\ output = NoOutput
  /\ response_text \in ClassifierInputs
  /\ verdict = "pending"
  /\ request = NoRequest
  /\ sent = <<>>

Classify ==
  /\ pc = "classify"
  /\ verdict' = is_llm_response_incomplete(response_text)
  /\ pc' = "classified"
  /\ UNCHANGED <<entry, env_key, opt_key, api_key, query, max_retries, attempt,
                 response, log, result, output, response_text, request, sent>>

NextClassifier == Classify

SpecClassifier == InitClassifier /\ [][NextClassifier]_vars

AllBlank(q) == \A i \in 1..Len(q) : q[i] = " "

\* ------------------------------------------------------------------ claims

\* C1: the run makes at most max_retries HTTP attempts, and the 0-based
\* index of every attempt it makes is below max_retries.
C1_AttemptsBounded ==
  /\ NumPosts <= max_retries
  /\ \A i \in EventsOf({"post"}) : log[i].attempt >= 0 /\ log[i].attempt < max_retries

C1_Witness == pc = "returned" /\ max_retries >= 2 /\ NumPosts = max_retries

\* C2: a Completed result carries content the classifier called not
\* incomplete, and main prints only such content; content classified
\* incomplete is neither returned nor printed.
C2_OnlyCompleteReturned ==
  /\ result.kind = "Completed" =>
       /\ is_llm_response_incomplete(result.content) = "False"
       /\ log[Len(log)].ev = "complete"
  /\ output.kind = "echo" => is_llm_response_incomplete(output.content) = "False"
  /\ \A i \in EventsOf({"incomplete"}) :
       i = Len(log) => result.kind # "Completed" /\ output.kind # "echo"

C2_Witness ==
  /\ output.kind = "echo"
  /\ output.content.t = "str"
  /\ EventsOf({"incomplete"}) # {}

\* C3: the first attempt classified complete ends the run with Completed of
\* its content: with index k, exactly k+1 attempts were made, and no attempt
\* and no sleep follows it.
C3_ReturnsOnFirstComplete ==
  \A i \in EventsOf({"complete"}) :
    /\ i = Len(log)
    /\ NumPosts = log[i].attempt + 1
    /\ pc \in {"returned", "exit"}
    /\ result = [kind |-> "Completed", content |-> response.content, outcome |-> "-"]

C3_Witness ==
  \E i \in EventsOf({"complete"}) :
    /\ log[i].attempt >= 1
    /\ log[i].attempt + 1 < max_retries
    /\ NumSleeps >= 1
    /\ pc = "returned"

\* C4: every sleep comes right after an attempt classified incomplete; after
\* a timeout or a transport error the next thing the run does is the next
\* attempt; a run of timeouts only makes no sleep.
C4_BackoffOnlyAfterIncomplete ==
  /\ \A i \in EventsOf({"sleep"}) : i > 1 /\ log[i - 1].ev = "incomplete"
  /\ pc = "sleep" => log # <<>> /\ log[Len(log)].ev = "incomplete"
  /\ \A i \in EventsOf({"Timeout", "RequestException"}) :
       /\ i < Len(log) => log[i + 1].ev = "post"
       /\ i = Len(log) => pc # "sleep"
  /\ EventsOf(OutcomeKinds) \subseteq EventsOf({"Timeout"}) => NumSleeps = 0

C4_Witness ==
  /\ pc = "returned"
  /\ max_retries >= 3
  /\ Cardinality(EventsOf({"Timeout"})) = max_retries
  /\ NumSleeps = 0

\* C5: a timeout, a transport error, an incomplete response or a body
\* without choices neither ends the loop early nor reaches the caller as an
\* exception: a run in which every attempt failed so made exactly
\* max_retries attempts and returned the failure result.
C5_FailuresDoNotAbort ==
  /\ (Returned /\ EventsOf(OutcomeKinds) \subseteq EventsOf(FailureKinds)) =>
       NumPosts = max_retries /\ result.kind = "None"
  /\ \A i \in EventsOf(FailureKinds) :
       /\ result.kind \in {"pending", "None"} \/ i < LastOutcome
       /\ (Returned /\ i = LastOutcome) => log[i].attempt = max_retries - 1

C5_Witness ==
  /\ Returned
  /\ result.kind = "None"
  /\ max_retries >= 3
  /\ EventsOf({"Timeout"}) # {}
  /\ EventsOf({"RequestException"}) # {}
  /\ EventsOf({"incomplete"}) # {}

\* C6, as the claim states it: with an empty api_key no HTTP attempt is made.
C6_Original == api_key = EmptyKey => NumPosts = 0

\* C6: call_llm_with_timeout_handling does not look at api_key; it is main
\* that signals an empty api_key, before any network call: a run started
\* through main with an empty api_key makes no HTTP attempt and ends with
\* the ClickException.
C6_MainSignalsEmptyKey ==
  (entry = "main" /\ api_key = EmptyKey) =>
    /\ NumPosts = 0
    /\ pc = "exit" => output.kind = "ClickException: API key is required"

C6_Witness ==
  /\ entry = "main"
  /\ api_key = EmptyKey
  /\ pc = "exit"
  /\ output.kind = "ClickException: API key is required"

\* C7: main with a missing API key or a blank query ends with an error at
\* once: call_llm_with_timeout_handling is never entered and no attempt is
\* made.
C7_MainPreconditions ==
  (entry = "main" /\ (api_key \in {NoKey, EmptyKey} \/ AllBlank(query))) =>
    /\ pc \in {"main", "exit"}
    /\ log = <<>>
    /\ result = PendingResult
    /\ pc = "exit" => output.kind \in {"ClickException: API key is required",
                                      "ClickException: Query cannot be blank"}

C7_Witness ==
  /\ entry = "main"
  /\ api_key = SomeKey
  /\ query = <<" ">>
  /\ pc = "exit"
  /\ output.kind = "ClickException: Query cannot be blank"

\* C8, as the claim states it: a run that has ended ended in Completed or
\* in the failure result.
C8_Original == Returned => result.kind \in {"Completed", "None"}

\* C9: a 2xx body with no choices key or an empty choices array is not
\* returned as Completed, raises nothing and is followed by no sleep: the
\* next attempt follows at once when budget remains, else the failure result.
C9_NoChoicesNonFatal ==
  (response.status = "ok" /\ response.choices \in {"absent", "empty"} /\ pc # "handle") =>
    /\ log[LastOutcome].ev = "no_choices"
    /\ result.kind \in {"pending", "None"}
    /\ pc # "sleep"
    /\ LastOutcome < Len(log) =>
         /\ LastOutcome + 1 = Len(log)
         /\ log[Len(log)] = Event("post", log[LastOutcome].attempt + 1)
    /\ Returned => log[LastOutcome].attempt = max_retries - 1

C9_Witness ==
  /\ response.status = "ok"
  /\ response.choices = "empty"
  /\ pc = "inflight"
  /\ NumSleeps = 0
  /\ NumPosts = 2

\* C10: a text that parses as JSON is classified complete, also when it is
\* short, ends in a trailing-fragment character or has trailing whitespace.
C10_ValidJsonIsComplete ==
  (pc = "classified" /\ response_text.t = "str" /\ JsonParses(response_text.v)) =>
    verdict = "False"

C10_Witness ==
  /\ pc = "classified"
  /\ response_text.t = "str"
  /\ JsonParses(response_text.v)
  /\ response_text.v[Len(response_text.v)] = " "
  /\ SearchTrailing("}", strip(response_text.v))
  /\ TextLen(strip(response_text.v)) < ShortThreshold
  /\ verdict = "False"

\* C11: the empty string, None, and every text that does not parse and whose
\* stripped length is below 50, whitespace-only text included, are
\* classified incomplete.
C11_ShortOrEmptyIsIncomplete ==
  pc = "classified" =>
    /\ (response_text.t = "None" \/ response_text = StrContent(<<>>)) => verdict = "True"
    /\ (/\ response_text.t = "str"
        /\ ~JsonParses(response_text.v)
        /\ TextLen(strip(response_text.v)) < ShortThreshold) => verdict = "True"

C11_Witness ==
  /\ pc = "classified"
  /\ response_text.t = "str"
  /\ response_text.v # <<>>
  /\ strip(response_text.v) = <<>>
  /\ verdict = "True"

\* C12: a text that does not parse and whose stripped form ends in one of
\* { [ : , " is classified incomplete, whatever its length.
C12_TrailingFragmentIsIncomplete ==
  (/\ pc = "classified"
   /\ response_text.t = "str"
   /\ ~JsonParses(response_text.v)
   /\ strip(response_text.v) # <<>>
   /\ strip(response_text.v)[Len(strip(response_text.v))] \in {"{", "[", ":", ",", "\""}) =>
    verdict = "True"

C12_Witness ==
  /\ pc = "classified"
  /\ response_text.t = "str"
  /\ strip(response_text.v) # <<>>
  /\ strip(response_text.v)[Len(strip(response_text.v))] = "["
  /\ TextLen(strip(response_text.v)) >= ShortThreshold
  /\ verdict = "True"

\* C13, as the claim states it: a non-empty text that does not parse, has a
\* stripped length of at least 50 and ends neither in { [ : , " nor in a
\* closing brace that no earlier opening brace matches is classified
\* complete; a closing brace that an earlier opening brace matches does not
\* count as a trailing fragment.
C13_Original ==
  LET t == strip(response_text.v)
      RECURSIVE OpenBraces(_)
      OpenBraces(n) ==
        IF n = 0 THEN 0
        ELSE LET d == OpenBraces(n - 1)
             IN IF t[n] = "{" THEN d + 1
                ELSE IF t[n] = "}" /\ d > 0 THEN d - 1
                ELSE d
      last == t[Len(t)]
  IN (/\ pc = "classified"
      /\ response_text.t = "str"
      /\ ~JsonParses(response_text.v)
      /\ TextLen(t) >= ShortThreshold
      /\ last \notin {"{", "[", ":", ",", "\""}
      /\ ~(last = "}" /\ OpenBraces(Len(t) - 1) = 0)) =>
       verdict = "False"

\* C13: a non-empty text that does not parse, has a stripped length of at
\* least 50 and ends in none of } , : " [ { is classified complete; one that
\* ends in a closing brace is classified incomplete, matched or not.
C13_CompleteWhenNoTrailingFragment ==
  LET t == strip(response_text.v)
  IN (pc = "classified" /\ response_text.t = "str" /\ ~JsonParses(response_text.v)) =>
       /\ (/\ TextLen(t) >= ShortThreshold
           /\ t[Len(t)] \notin {"}", ",", ":", "\"", "[", "{"}) => verdict = "False"
       /\ (t # <<>> /\ t[Len(t)] = "}") => verdict = "True"

C13_Witness ==
  /\ pc = "classified"
  /\ response_text.t = "str"
  /\ ~JsonParses(response_text.v)
  /\ TextLen(strip(response_text.v)) >= ShortThreshold
  /\ \E i \in 1..Len(response_text.v) : response_text.v[i] = "}"
  /\ verdict = "False"

\* C14, as the claim states it: the failure result of a run that made
\* attempts carries the outcome of its last attempt.
C14_Original ==
  (Returned /\ result.kind = "None" /\ EventsOf(OutcomeKinds) # {}) =>
    result.outcome = log[LastOutcome].ev

\* C14: when the loop ends with no accepted response the caller gets the
\* bare None: the same value whatever the last attempt ended with, carrying
\* no attempt outcome.
C14_ExhaustedIsBareNone ==
  (Returned /\ result.kind \notin {"Completed", "raised"}) =>
    /\ result = [kind |-> "None", content |-> NoContent, outcome |-> "-"]
    /\ NumPosts = max_retries
    /\ (entry = "main" /\ pc = "exit") =>
         output = [kind |-> "Failed to get response from LLM.", content |-> NoContent]

C14_Witness ==
  /\ Returned
  /\ result.kind = "None"
  /\ max_retries >= 2
  /\ EventsOf({"incomplete"}) # {}
  /\ log[LastOutcome] = Event("Timeout", max_retries - 1)

\* C15, as the claim states it: a run of main makes its network calls with
\* the key given explicitly, whatever the environment holds; with no
\* --api-key there is no key and no call.
C15_Original ==
  entry = "main" =>
    /\ opt_key = NotGiven => sent = <<>>
    /\ \A i \in 1..Len(sent) : sent[i].auth = <<"Bearer", opt_key>>

\* C15: call_llm_with_timeout_handling sends the api_key it was passed,
\* whatever the environment holds; main reads OPENROUTER_API_KEY only as the
\* default of --api-key: with the option given, the key in use is the
\* option's, whatever the environment holds.
C15_EnvOnlyAsDefault ==
  /\ (entry = "main" /\ opt_key # NotGiven) =>
       /\ api_key = opt_key
       /\ \A i \in 1..Len(sent) : sent[i].auth = <<"Bearer", opt_key>>
       /\ opt_key = EmptyKey => sent = <<>>
  /\ (entry = "main" /\ opt_key = NotGiven) =>
       /\ api_key = env_key
       /\ \A i \in 1..Len(sent) : sent[i].auth = <<"Bearer", env_key>>
  /\ entry = "direct" => \A i \in 1..Len(sent) : sent[i].auth = <<"Bearer", api_key>>

C15_Witness ==
  /\ entry = "main"
  /\ opt_key = SomeKey
  /\ env_key = EmptyKey
  /\ Len(sent) >= 2

\* C16: main, past its preconditions, writes once: the content of the
\* accepted attempt when the call returned a Completed result, the failure
\* message when it returned None; never the content after an exhausted run,
\* and nothing before the run's last step.
C16_MainOutputsOneOfTwo ==
  entry = "main" =>
    /\ (pc = "exit" /\ result.kind = "Completed") =>
         /\ output = [kind |-> "echo", content |-> result.content]
         /\ log[Len(log)].ev = "complete"
         /\ output.content = response.content
    /\ (pc = "exit" /\ result.kind = "None") =>
         output = [kind |-> "Failed to get response from LLM.", content |-> NoContent]
    /\ output.kind = "echo" => result.kind = "Completed"
    /\ pc # "exit" => output = NoOutput

C16_Witness ==
  /\ entry = "main"
  /\ pc = "exit"
  /\ result.kind = "None"
  /\ NumPosts = DefaultMaxRetries
  /\ output.kind = "Failed to get response from LLM."

\* C17: the request is built once, before the loop, and no attempt changes
\* it: every attempt of a run hands over the same headers and payload,
\* whatever the earlier attempts ended with.
C17_SameRequestEveryAttempt ==
  LET built == [auth |-> <<"Bearer", api_key>>,
                content_type |-> "application/json",
                model |-> ModelName,
                messages |-> <<[role |-> "user", content |-> query]>>,
                max_tokens |-> 4000]
  IN /\ Len(sent) = NumPosts
     /\ \A i \in 1..Len(sent) : sent[i] = built
     /\ \A i, j \in 1..Len(sent) : sent[i] = sent[j]
     /\ pc \in {"main", "call"} => request = NoRequest
     /\ (pc \notin {"main", "call"} /\ ~(pc = "exit" /\ ~Returned)) => request = built

C17_Witness ==
  /\ Len(sent) >= 3
  /\ EventsOf({"incomplete"}) # {}
  /\ EventsOf({"Timeout"}) # {}
  /\ sent[1] = sent[3]

\* C18, as the claim states it: the classifier comes back with a boolean for
\* every input.
C18_Original == pc = "classified" => verdict \in {"True", "False"}

\* C19: the sleeps number the attempts classified incomplete, each sleep is
\* done before the next attempt starts, and the last attempt is no
\* exception: when it is incomplete the run sleeps before it returns the
\* failure result.
C19_SleepPerIncomplete ==
  /\ NumSleeps = Cardinality(EventsOf({"incomplete"})) - (IF pc = "sleep" THEN 1 ELSE 0)
  /\ \A i \in EventsOf({"incomplete"}) :
       /\ i < Len(log) => log[i + 1] = Event("sleep", log[i].attempt)
       /\ i = Len(log) => pc = "sleep"
  /\ \A i \in EventsOf({"sleep"}) : i > 1 /\ log[i - 1].ev = "incomplete"
  /\ \A i \in EventsOf({"post"}) : i > 1 => log[i - 1].ev # "incomplete"

C19_Witness ==
  /\ Returned
  /\ result.kind = "None"
  /\ max_retries >= 2
  /\ log[Len(log)] = Event("sleep", max_retries - 1)
====
